---- MODULE Spec2Model ----
(***************************************************************************)
(* Model of the trade manager: the dispatcher loop of trade_manager.py     *)
(* (run_trade_manager), the broker adapter of alpaca_client.py, the store  *)
(* adapter of supabase_client.py and the trade-event listener of           *)
(* alpaca_ws_client.py, as started by main.py.                             *)
(***************************************************************************)
EXTENDS Integers, Sequences, FiniteSets, TLC

\* ---------------------------------------------------------------- bounds
NumRows == 1
MaxOrders == 2
MaxPrice == 2

RowIds == 1..NumRows
Prices == 1..MaxPrice
Disp == {1, 2}

\* Python None of an optional number (prices and levels are >= 0)
None == -1
\* SQL NULL / Python None of an optional string; falsy like ""
NULL == ""

\* ------------------------------------------------- condition evaluator
NoSpot == [exists |-> FALSE, last_price |-> None, tf_closes |-> <<>>]

\* a spot row with a last price and one closed candle per timeframe label
SpotRowOf(last, close) ==
    [exists |-> TRUE, last_price |-> last,
     tf_closes |-> [tf \in {"5m"} |-> [close |-> close]]]

\* a reader that takes 1 for a last price that is absent
_get_spot_price_default(spot_row) ==
    IF ~spot_row.exists THEN None
    ELSE IF spot_row.last_price = None THEN 1 ELSE spot_row.last_price

_get_spot_price(spot_row) ==
    IF ~spot_row.exists THEN None ELSE spot_row.last_price

_get_tf_close(spot_row, tf) ==
    IF ~spot_row.exists \/ tf = NULL THEN None
    ELSE IF tf \notin DOMAIN spot_row.tf_closes THEN None
    ELSE spot_row.tf_closes[tf].close

_choose_spot_row(type_field, spot_under, spot_option) ==
    IF type_field = "equity" THEN spot_under
    ELSE IF type_field = "option" THEN spot_option
    ELSE spot_under

\* x or y on optional numbers: 0 and None are both falsy
PyOr(x, y) == IF x # None /\ x # 0 THEN x ELSE y

_get_sl_level(row) == PyOr(row.sl_level, row.sl)

_get_tp_level(row) == PyOr(row.tp_level, row.tp)

\* (row.get(f) or "equity")
TypeOrEquity(t) == IF t = NULL THEN "equity" ELSE t

profit_when_up(row) ==
    IF row.asset_type = "option"
    THEN IF row.cp \in {"c", "call"} THEN TRUE
         ELSE IF row.cp \in {"p", "put"} THEN FALSE
         ELSE row.side # "short"
    ELSE row.side # "short"

check_entry(row, spot_under, spot_option) ==
    LET cond     == row.entry_cond
        level    == row.entry_level
        spot_row == _choose_spot_row(TypeOrEquity(row.entry_type), spot_under, spot_option)
        price    == IF cond \in {"at", "now"} THEN _get_spot_price(spot_row)
                    ELSE _get_tf_close(spot_row, row.entry_tf)
    IN  IF cond = NULL THEN <<FALSE, None>>
        ELSE IF cond # "now" /\ level = None THEN <<FALSE, None>>
        ELSE IF ~spot_row.exists THEN <<FALSE, None>>
        ELSE IF cond \notin {"at", "now", "ca", "cb"} THEN <<FALSE, None>>
        ELSE IF cond \in {"ca", "cb"} /\ row.entry_tf = NULL THEN <<FALSE, None>>
        ELSE IF price = None THEN <<FALSE, None>>
        ELSE IF cond = "now" THEN <<TRUE, price>>
        ELSE IF cond = "at"
             THEN <<IF profit_when_up(row) THEN price <= level ELSE price >= level, price>>
        ELSE IF cond = "ca" THEN <<price > level, price>>
        ELSE <<price < level, price>>

check_sl(row, spot_under, spot_option) ==
    LET cond     == row.sl_cond
        level    == _get_sl_level(row)
        spot_row == _choose_spot_row(TypeOrEquity(row.sl_type), spot_under, spot_option)
        price    == IF cond \in {"at", "now"} THEN _get_spot_price(spot_row)
                    ELSE _get_tf_close(spot_row, row.sl_tf)
    IN  IF row.sl_enabled = "false" THEN <<FALSE, None>>
        ELSE IF cond = NULL THEN <<FALSE, None>>
        ELSE IF cond # "now" /\ level = None THEN <<FALSE, None>>
        ELSE IF ~spot_row.exists THEN <<FALSE, None>>
        ELSE IF cond \notin {"at", "now", "ca", "cb"} THEN <<FALSE, None>>
        ELSE IF cond \in {"ca", "cb"} /\ row.sl_tf = NULL THEN <<FALSE, None>>
        ELSE IF price = None THEN <<FALSE, None>>
        ELSE IF cond = "now" THEN <<TRUE, price>>
        ELSE IF cond = "at"
             THEN <<IF profit_when_up(row) THEN price <= level ELSE price >= level, price>>
        ELSE IF cond = "ca" THEN <<price > level, price>>
        ELSE <<price < level, price>>

check_tp(row, spot_under, spot_option) ==
    LET level    == _get_tp_level(row)
        spot_row == _choose_spot_row(TypeOrEquity(row.tp_type), spot_under, spot_option)
        price    == _get_spot_price(spot_row)
    IN  IF row.tp_enabled = "false" THEN <<FALSE, None>>
        ELSE IF level = None THEN <<FALSE, None>>
        ELSE IF ~spot_row.exists THEN <<FALSE, None>>
        ELSE IF price = None THEN <<FALSE, None>>
        ELSE <<IF profit_when_up(row) THEN price >= level ELSE price <= level, price>>


\* ------------------------------------------------------ market hours
\* New-York wall clock: weekday 0 = Monday .. 6 = Sunday, hm = HHMM
TimeSlots == { [weekday |-> 0, hm |-> 930],
               [weekday |-> 0, hm |-> 931],
               [weekday |-> 0, hm |-> 945],
               [weekday |-> 0, hm |-> 1000],
               [weekday |-> 0, hm |-> 1600],
               [weekday |-> 0, hm |-> 1601],
               [weekday |-> 5, hm |-> 1000] }

\* an options gate that does not skip the first minute
_is_regular_market_open_now_0930(t) ==
    IF t.weekday >= 5 THEN FALSE ELSE 930 <= t.hm /\ t.hm <= 1600

\* an options gate that never opens
_is_regular_market_open_now_never(t) == FALSE

\* trade_manager.py: options gate of the dispatcher, 09:31-16:00 Mon-Fri
_is_regular_market_open_now(t) ==
    IF t.weekday >= 5 THEN FALSE ELSE 931 <= t.hm /\ t.hm <= 1600

\* alpaca_client.py: gate inside place_option_market, 09:30-16:00 Mon-Fri
_is_market_open_now(t) ==
    IF t.weekday >= 5 THEN FALSE ELSE 930 <= t.hm /\ t.hm <= 1600

\* ------------------------------------------------------ broker adapter
OrderIdOf(n) == <<"o1", "o2", "o3", "o4", "o5", "o6", "o7", "o8">>[n]

HttpErrorCodes == {400, 401, 403, 422, 429, 500}

\* what the HTTP exchange of one POST /v2/orders can turn out to be
NetOutcomes(new_id, price) ==
    { [kind |-> "ok", code |-> 200,
       payload |-> [id |-> new_id, status |-> "accepted", filled_avg_price |-> None]],
      [kind |-> "ok", code |-> 200,
       payload |-> [id |-> new_id, status |-> "filled", filled_avg_price |-> price]],
      [kind |-> "network", code |-> None,
       payload |-> [id |-> NULL, status |-> NULL, filled_avg_price |-> None]] }
    \cup { [kind |-> "http", code |-> c,
            payload |-> [id |-> NULL, status |-> NULL, filled_avg_price |-> None]]
           : c \in HttpErrorCodes }

_extract_fill_price(order) == PyOr(order.filled_avg_price, None)

\* the tuple returned for the HTTP exchange `net`
PostResult(net) ==
    IF net.kind = "http" THEN <<None, NULL, None, net.code, "http_error">>
    ELSE IF net.kind = "network" THEN <<None, NULL, None, None, "network_error">>
    ELSE <<_extract_fill_price(net.payload), net.payload.id, None, NULL>>

place_equity_market(symbol, qty, side, net) ==
    IF side \notin {"buy", "sell"} THEN <<None, NULL, 400, "invalid side">>
    ELSE PostResult(net)

\* occ is NULL, "OCC" or "O:OCC" here: the "O:" prefix is stripped
_normalize_occ(occ) ==
    IF occ = NULL THEN "" ELSE IF occ = "O:OCC" THEN "OCC" ELSE occ

_map_option_side(side) ==
    IF side \in {"buy", "buy_to_open", "buy_to_close"} THEN "buy"
    ELSE IF side \in {"sell", "sell_to_open", "sell_to_close"} THEN "sell"
    ELSE NULL

place_option_market(occ, qty, side, net, t) ==
    IF ~_is_market_open_now(t)
    THEN <<None, NULL, None, None, "market_closed_for_option_market_order">>
    ELSE IF _normalize_occ(occ) = "" THEN <<None, NULL, 400, "missing OCC symbol">>
    ELSE IF _map_option_side(side) = NULL THEN <<None, NULL, 400, "invalid side">>
    ELSE PostResult(net)

\* TRUE iff place_option_market gets as far as the HTTP POST
OptionPosts(occ, side, t) ==
    _is_market_open_now(t) /\ _normalize_occ(occ) # "" /\ _map_option_side(side) # NULL


\* ------------------------------------------------------------- state
VARIABLES
    active_trades,    \* store table active_trades: row id -> row
    executed_trades,  \* store table executed_trades: active_trade_id -> record
    spot,             \* store table spot: the last price of the instruments
    now_et,           \* New-York wall clock
    orders,           \* the broker's orders, in order of acceptance
    ws_queue,         \* trade_updates events pushed by the broker, in flight
    pc,               \* per dispatcher process: "off", "run", "await", "crashed"
    rows,             \* per dispatcher: rows of its fetch not yet handled
    resp              \* per dispatcher: the place_* return value being unpacked

vars == <<active_trades, executed_trades, spot, now_et, orders, ws_queue, pc, rows, resp>>

terminal_order_statuses == {"filled", "rejected", "canceled", "expired"}

fatal_codes == {400, 401, 403, 422}

soft_codes == {429}

\* a row as an external author writes it; the conditions are a long position:
\* enter at or below 1, stop at or below 1, take profit at or above 2
AuthoredRow(i, asset_type, occ, status) ==
    [ id |-> i, exists |-> TRUE, manage |-> "Y", status |-> status,
      symbol |-> "SYM", occ |-> occ, asset_type |-> asset_type,
      cp |-> IF asset_type = "option" THEN "c" ELSE NULL, side |-> "long", qty |-> 2,
      entry_cond |-> "at", entry_type |-> "equity", entry_tf |-> NULL, entry_level |-> 1,
      sl_enabled |-> "true", sl_cond |-> "at", sl_type |-> "equity", sl_tf |-> NULL,
      sl_level |-> 1, sl |-> None,
      tp_enabled |-> "true", tp_level |-> 2, tp |-> None, tp_type |-> "equity",
      trade_type |-> "swing",
      end_time |-> [weekday |-> 0, hm |-> 930],   \* a column no line of the code reads
      order_id |-> NULL, order_status |-> NULL, comment |-> NULL ]

\* the external authors: an intent arrives as nt-waiting, a position taken over
\* from the position manager as pos-managing
AuthoredStatuses == {"nt-waiting", "pos-managing"}

EquityRow(i, status) == AuthoredRow(i, "equity", NULL, status)

NoExecuted ==
    [ exists |-> FALSE, asset_type |-> NULL, qty |-> 0,
      open_price |-> None, open_cost_basis |-> None,
      close_price |-> None, close_cost_basis |-> None, close_reason |-> NULL ]

\* the open record a position manager wrote for a row it authored as pos-managing
ExternalOpen(row, price) ==
    [ NoExecuted EXCEPT !.exists = TRUE, !.asset_type = row.asset_type, !.qty = row.qty,
      !.open_price = price,
      !.open_cost_basis = price * row.qty * (IF row.asset_type = "option" THEN 100 ELSE 1) ]

NoResp == [ret |-> <<>>, reason |-> NULL]

InitStore ==
    /\ \E st \in [RowIds -> AuthoredStatuses] :
            active_trades = [i \in RowIds |-> EquityRow(i, st[i])]
    /\ executed_trades = [i \in RowIds |->
            IF active_trades[i].status = "pos-managing"
            THEN ExternalOpen(active_trades[i], 1) ELSE NoExecuted]
    /\ spot \in Prices
    /\ now_et = [weekday |-> 0, hm |-> 1000]
    /\ orders = <<>>
    /\ ws_queue = <<>>
    /\ rows = [d \in Disp |-> <<>>]
    /\ resp = [d \in Disp |-> NoResp]

\* main.py: one process, the dispatcher in its main thread
Init == InitStore /\ pc = [d \in Disp |-> IF d = 1 THEN "run" ELSE "off"]

\* two dispatcher processes on the same store
InitConc == InitStore /\ pc = [d \in Disp |-> "run"]

\* a row whose take-profit level is its stop level: at that price both fire
TightRow(i, status) == [EquityRow(i, status) EXCEPT !.tp_level = 1]

\* one process, a store of such rows
InitBoth ==
    /\ \E st \in [RowIds -> AuthoredStatuses] :
            active_trades = [i \in RowIds |-> TightRow(i, st[i])]
    /\ executed_trades = [i \in RowIds |->
            IF active_trades[i].status = "pos-managing"
            THEN ExternalOpen(active_trades[i], 1) ELSE NoExecuted]
    /\ spot \in Prices
    /\ now_et = [weekday |-> 0, hm |-> 1000]
    /\ orders = <<>>
    /\ ws_queue = <<>>
    /\ rows = [d \in Disp |-> <<>>]
    /\ resp = [d \in Disp |-> NoResp]
    /\ pc = [d \in Disp |-> IF d = 1 THEN "run" ELSE "off"]

OptionRow(i, status) == AuthoredRow(i, "option", "O:OCC", status)

\* one process, a store of option rows, at any time of the week
InitOpt ==
    /\ \E st \in [RowIds -> AuthoredStatuses] :
            active_trades = [i \in RowIds |-> OptionRow(i, st[i])]
    /\ executed_trades = [i \in RowIds |->
            IF active_trades[i].status = "pos-managing"
            THEN ExternalOpen(active_trades[i], 1) ELSE NoExecuted]
    /\ spot \in Prices
    /\ now_et \in TimeSlots
    /\ orders = <<>>
    /\ ws_queue = <<>>
    /\ rows = [d \in Disp |-> <<>>]
    /\ resp = [d \in Disp |-> NoResp]
    /\ pc = [d \in Disp |-> IF d = 1 THEN "run" ELSE "off"]


\* ------------------------------------------------------ store adapter
\* a fetch without the manage filter
ManageFilter_all(row) == TRUE

\* .in_("manage", ["Y", "C"])
ManageFilter(row) == row.manage \in {"Y", "C"}

\* select * from active_trades where manage in ('Y','C') order by created_at
fetch_active_trades(table) ==
    SelectSeq([k \in 1..NumRows |-> table[k]], LAMBDA r : r.exists /\ ManageFilter(r))

\* what the spot table can hold for an instrument besides a row with a last
\* price: no row, a row with candle closes and last_price null, a row with
\* neither (spot = None), or a select that fails
NoSpotRow == -2

CloseOnly == -3

SpotError == -4

SpotCases == Prices \cup {None, NoSpotRow, CloseOnly, SpotError}

fetch_spot(instrument_id) ==
    IF instrument_id = NULL \/ spot = NoSpotRow THEN NoSpot
    ELSE IF spot = CloseOnly THEN SpotRowOf(None, 1)
    ELSE SpotRowOf(spot, spot)

\* fetch_spot raises RuntimeError: the loop body logs and continues
fetch_spot_raises(row) == spot = SpotError /\ (row.symbol # NULL \/ row.occ # NULL)

\* the price the market fills an order at
MarketPrice == IF spot \in Prices THEN spot ELSE 1

\* a deleted row keeps nothing but its identity
DeletedRow(row) ==
    [row EXCEPT !.exists = FALSE, !.manage = NULL, !.status = NULL,
                !.order_id = NULL, !.order_status = NULL, !.comment = NULL]

\* a delete that removes nothing
delete_trade_none(table, row_id) == table

delete_trade(table, row_id) ==
    [table EXCEPT ![row_id] = DeletedRow(@)]

\* a promotion that writes the position manager's status
mark_as_pos_managing(table, row_id) ==
    IF table[row_id].exists
    THEN [table EXCEPT ![row_id].status = "pos-managing"] ELSE table

\* update({"status": "nt-managing"}).eq("id", row_id): no row, no effect
mark_as_managing(table, row_id) ==
    IF table[row_id].exists
    THEN [table EXCEPT ![row_id].status = "nt-managing"] ELSE table

\* update({order_id, order_status, comment}).eq("id", row_id)
UpdateOrderMeta(table, row_id, order_id, order_status, comment) ==
    IF table[row_id].exists
    THEN [table EXCEPT ![row_id].order_id = order_id,
                       ![row_id].order_status = order_status,
                       ![row_id].comment = comment]
    ELSE table

\* a freeze that leaves manage as it is
FreezeRow_keeps_manage(table, row_id, comment) ==
    IF table[row_id].exists
    THEN [table EXCEPT ![row_id].order_id = "Error",
                       ![row_id].order_status = "error",
                       ![row_id].comment = comment]
    ELSE table

\* update({order_id: "Error", order_status: "error", manage: "N", comment})
FreezeRow(table, row_id, comment) ==
    IF table[row_id].exists
    THEN [table EXCEPT ![row_id].order_id = "Error",
                       ![row_id].order_status = "error",
                       ![row_id].manage = "N",
                       ![row_id].comment = comment]
    ELSE table

Multiplier(asset_type) == IF asset_type = "option" THEN 100 ELSE 1

\* supabase_client.insert_executed_trade_open(row, open_price)
insert_executed_trade_open_params == {"row", "open_price"}

insert_executed_trade_open(ledger, row, open_price) ==
    [ledger EXCEPT ![row.id] =
        [ NoExecuted EXCEPT !.exists = TRUE, !.asset_type = row.asset_type, !.qty = row.qty,
          !.open_price = open_price,
          !.open_cost_basis = open_price * row.qty * Multiplier(row.asset_type) ]]

\* supabase_client.update_executed_trade_close(active_trade_id, asset_type, qty,
\* close_price, reason): an update of the records with that id; none, no effect
update_executed_trade_close_params ==
    {"active_trade_id", "asset_type", "qty", "close_price", "reason"}

update_executed_trade_close(ledger, active_trade_id, asset_type, qty, close_price, reason) ==
    IF ledger[active_trade_id].exists
    THEN [ledger EXCEPT ![active_trade_id].close_price = close_price,
                        ![active_trade_id].close_cost_basis =
                            close_price * qty * Multiplier(asset_type),
                        ![active_trade_id].close_reason = reason]
    ELSE ledger

\* a Python call with these keyword arguments binds to a function with these
\* parameters (none has a default); otherwise it raises TypeError
CallBinds(keywords, params) == keywords = params

\* a Python tuple unpacks into n targets iff it has n elements; otherwise ValueError
Unpacks(ret, n) == Len(ret) = n


\* ---------------------------------------------------------- dispatcher
\* str(error_code) as an f-string formats it
CodeStr(code) ==
    CASE code = None -> "None"
      [] code = 400 -> "400" [] code = 401 -> "401" [] code = 403 -> "403"
      [] code = 422 -> "422" [] code = 429 -> "429" [] code = 500 -> "500"
      [] OTHER -> "code"

\* f"{reason}_error_{error_code}: {safe_msg}"
ErrorComment(reason, code, msg) == reason \o "_error_" \o CodeStr(code) \o ": " \o msg

\* status == "nt-waiting" and order_id and order_status == "filled"
AutoPromote(row) ==
    row.status = "nt-waiting" /\ row.order_id # NULL /\ row.order_status = "filled"

\* the local variable `status` after the auto-promote block
LocalStatus(row) == IF AutoPromote(row) THEN "nt-managing" ELSE row.status

\* order_id and order_status not in terminal_order_statuses
OrderPending(row) ==
    row.order_id # NULL /\ row.order_status \notin terminal_order_statuses

\* the options gate of the entry, SL and TP branches (the force branch has none)
GateOpen(row, t) == row.asset_type = "equity" \/ _is_regular_market_open_now(t)

Skip == [act |-> "skip", reason |-> NULL]

\* a loop body that evaluates TP before SL
Plan_tp_first(row, t) ==
    LET status     == LocalStatus(row)
        spot_under == fetch_spot(row.symbol)
        spot_opt   == fetch_spot(row.occ)
        managing   == status \in {"nt-managing", "pos-managing"}
        en         == check_entry(row, spot_under, spot_opt)
        sl         == check_sl(row, spot_under, spot_opt)
        tp         == check_tp(row, spot_under, spot_opt)
    IN  IF fetch_spot_raises(row) THEN Skip
        ELSE IF row.manage = "C"
        THEN IF status = "nt-waiting" THEN [act |-> "delete", reason |-> "force"]
             ELSE IF managing THEN [act |-> "post", reason |-> "force"]
             ELSE Skip
        ELSE IF row.manage # "Y" THEN Skip
        ELSE IF status = "nt-waiting"
        THEN IF OrderPending(row) THEN Skip
             ELSE IF ~en[1] \/ en[2] = None THEN Skip
             ELSE IF ~GateOpen(row, t) THEN Skip
             ELSE [act |-> "post", reason |-> "entry"]
        ELSE IF managing
        THEN IF tp[1] /\ tp[2] # None
             THEN IF OrderPending(row) THEN Skip
                  ELSE IF ~GateOpen(row, t) THEN Skip
                  ELSE [act |-> "post", reason |-> "tp"]
             ELSE IF sl[1] /\ sl[2] # None
             THEN IF OrderPending(row) THEN Skip
                  ELSE IF ~GateOpen(row, t) THEN Skip
                  ELSE [act |-> "post", reason |-> "sl"]
             ELSE Skip
        ELSE Skip

\* what one pass of the loop body does with a fetched row, up to the broker call
Plan(row, t) ==
    LET status     == LocalStatus(row)
        spot_under == fetch_spot(row.symbol)
        spot_opt   == fetch_spot(row.occ)
        managing   == status \in {"nt-managing", "pos-managing"}
        en         == check_entry(row, spot_under, spot_opt)
        sl         == check_sl(row, spot_under, spot_opt)
        tp         == check_tp(row, spot_under, spot_opt)
    IN  IF fetch_spot_raises(row) THEN Skip
        ELSE IF row.manage = "C"
        THEN IF status = "nt-waiting" THEN [act |-> "delete", reason |-> "force"]
             ELSE IF managing THEN [act |-> "post", reason |-> "force"]
             ELSE Skip
        ELSE IF row.manage # "Y" THEN Skip
        ELSE IF status = "nt-waiting"
        THEN IF OrderPending(row) THEN Skip
             ELSE IF ~en[1] \/ en[2] = None THEN Skip
             ELSE IF ~GateOpen(row, t) THEN Skip
             ELSE [act |-> "post", reason |-> "entry"]
        ELSE IF managing
        THEN IF sl[1] /\ sl[2] # None
             THEN IF OrderPending(row) THEN Skip
                  ELSE IF ~GateOpen(row, t) THEN Skip
                  ELSE [act |-> "post", reason |-> "sl"]
             ELSE IF tp[1] /\ tp[2] # None
             THEN IF OrderPending(row) THEN Skip
                  ELSE IF ~GateOpen(row, t) THEN Skip
                  ELSE [act |-> "post", reason |-> "tp"]
             ELSE Skip
        ELSE Skip

\* the store after the auto-promote block of the loop body
Promoted(table, row) ==
    IF AutoPromote(row) THEN mark_as_managing(table, row.id) ELSE table

\* a side that does not look at the reason
EquitySide_sell(reason) == "sell"

EquitySide(reason) == IF reason = "entry" THEN "buy" ELSE "sell"

OptionSide(reason) == IF reason = "entry" THEN "buy_to_open" ELSE "sell_to_close"

\* the keyword arguments of the dispatcher's two ledger calls
entry_open_call_keywords == {"active_trade_row", "asset_type", "qty", "open_price"}

exit_close_call_keywords == {"active_trade_id", "asset_type", "qty", "close_price", "reason"}

\* number of targets the place_* return value is unpacked into
UnpackTargets(reason) == IF reason = "force" THEN 2 ELSE 4

is_fatal(error_code) == error_code \in fatal_codes \/ error_code = None

is_soft(error_code) == error_code \in soft_codes \/ (error_code # None /\ error_code >= 500)

\* entry branch after the unpacking: <<active_trades, executed_trades>>
FinishEntry(table, ledger, row, ret) ==
    LET fill_price    == ret[1]
        new_order_id  == ret[2]
        error_code    == ret[3]
        error_message == ret[4]
        stored == IF new_order_id # NULL /\ row.order_id = NULL
                  THEN UpdateOrderMeta(table, row.id, new_order_id, "pending_new", "entry")
                  ELSE table
    IN  IF new_order_id = NULL
        THEN IF is_fatal(error_code)
             THEN <<FreezeRow(table, row.id, ErrorComment("entry", error_code, error_message)),
                    ledger>>
             ELSE IF is_soft(error_code) THEN <<table, ledger>>
             ELSE <<FreezeRow(table, row.id, "entry_error_unknown: " \o error_message), ledger>>
        ELSE IF fill_price = None THEN <<stored, ledger>>
        ELSE IF ~CallBinds(entry_open_call_keywords, insert_executed_trade_open_params)
        THEN <<stored, ledger>>
        ELSE <<mark_as_managing(stored, row.id),
               insert_executed_trade_open(ledger, row, fill_price)>>

\* SL and TP branches after the unpacking
FinishExit(table, ledger, row, ret, reason) ==
    LET fill_price    == ret[1]
        new_order_id  == ret[2]
        error_code    == ret[3]
        error_message == ret[4]
        stored == IF new_order_id # NULL /\ row.order_id = NULL
                  THEN UpdateOrderMeta(table, row.id, new_order_id, "pending_new", reason)
                  ELSE table
    IN  IF new_order_id = NULL
        THEN IF is_fatal(error_code)
             THEN <<FreezeRow(table, row.id, ErrorComment(reason, error_code, error_message)),
                    ledger>>
             ELSE IF is_soft(error_code) THEN <<table, ledger>>
             ELSE <<FreezeRow(table, row.id, reason \o "_error_unknown"), ledger>>
        ELSE IF fill_price = None THEN <<stored, ledger>>
        ELSE <<delete_trade(stored, row.id),
               IF CallBinds(exit_close_call_keywords, update_executed_trade_close_params)
               THEN update_executed_trade_close(ledger, row.id, row.asset_type, row.qty,
                                                fill_price, reason)
               ELSE ledger>>

\* force-close branch after the unpacking `fill_price, _ = ...`
FinishForce(table, ledger, row, ret) ==
    LET fill_price == ret[1]
    IN  IF fill_price = None THEN <<table, ledger>>
        ELSE <<delete_trade(table, row.id),
               IF CallBinds(exit_close_call_keywords, update_executed_trade_close_params)
               THEN update_executed_trade_close(ledger, row.id, row.asset_type, row.qty,
                                                fill_price, "force")
               ELSE ledger>>

Finish(table, ledger, row, ret, reason) ==
    IF reason = "entry" THEN FinishEntry(table, ledger, row, ret)
    ELSE IF reason = "force" THEN FinishForce(table, ledger, row, ret)
    ELSE FinishExit(table, ledger, row, ret, reason)

\* rows = supabase_client.fetch_active_trades(), at the top of the while loop
Fetch(d) ==
    /\ pc[d] = "run"
    /\ rows[d] = <<>>
    /\ rows' = [rows EXCEPT ![d] = fetch_active_trades(active_trades)]
    /\ UNCHANGED <<active_trades, executed_trades, spot, now_et, orders, ws_queue, pc, resp>>

\* a pass of the loop body that ends in `continue` before any broker call
DispatchSkip(d) ==
    /\ pc[d] = "run"
    /\ rows[d] # <<>>
    /\ Plan(Head(rows[d]), now_et).act = "skip"
    /\ active_trades' = Promoted(active_trades, Head(rows[d]))
    /\ rows' = [rows EXCEPT ![d] = Tail(@)]
    /\ UNCHANGED <<executed_trades, spot, now_et, orders, ws_queue, pc, resp>>

\* manage = 'C' on a row read as nt-waiting: delete_trade(row_id)
DispatchDelete(d) ==
    /\ pc[d] = "run"
    /\ rows[d] # <<>>
    /\ Plan(Head(rows[d]), now_et).act = "delete"
    /\ active_trades' = delete_trade(Promoted(active_trades, Head(rows[d])), Head(rows[d]).id)
    /\ rows' = [rows EXCEPT ![d] = Tail(@)]
    /\ UNCHANGED <<executed_trades, spot, now_et, orders, ws_queue, pc, resp>>

\* the unpacking of the place_* return value and the rest of the loop body, on
\* the store as `table` has it; ValueError leaves run_trade_manager: the process ends
Unpack(d, table, row, ret, reason) ==
    IF ~Unpacks(ret, UnpackTargets(reason))
    THEN /\ pc' = [pc EXCEPT ![d] = "crashed"]
         /\ rows' = [rows EXCEPT ![d] = <<>>]
         /\ active_trades' = table
         /\ UNCHANGED executed_trades
    ELSE /\ pc' = [pc EXCEPT ![d] = "run"]
         /\ rows' = [rows EXCEPT ![d] = Tail(@)]
         /\ active_trades' = Finish(table, executed_trades, row, ret, reason)[1]
         /\ executed_trades' = Finish(table, executed_trades, row, ret, reason)[2]

\* a pass of the loop body up to the place_* call, with the HTTP exchange `net`.
\* An accepted order is at the broker before the call returns; a call that
\* creates no order returns at once and the loop body goes on in the same step.
SubmitWith(d, net) ==
    /\ pc[d] = "run"
    /\ rows[d] # <<>>
    /\ Plan(Head(rows[d]), now_et).act = "post"
    /\ LET row      == Head(rows[d])
           reason   == Plan(row, now_et).reason
           equity   == row.asset_type = "equity"
           side     == IF equity THEN EquitySide(reason) ELSE OptionSide(reason)
           posted   == equity \/ OptionPosts(row.occ, side, now_et)
           ret      == IF equity
                       THEN place_equity_market(row.symbol, row.qty, side, net)
                       ELSE place_option_market(row.occ, row.qty, side, net, now_et)
           accepted == posted /\ net.kind = "ok"
           filled   == net.payload.status = "filled"
       IN  IF accepted
           THEN /\ Len(orders) < MaxOrders
                /\ orders' = Append(orders,
                               [ row |-> row.id, reason |-> reason,
                                 side |-> IF equity THEN side ELSE _map_option_side(side),
                                 status |-> IF filled THEN "filled" ELSE "new" ])
                /\ ws_queue' = IF filled
                               THEN Append(ws_queue, [id |-> net.payload.id,
                                                      status |-> "filled", event |-> "fill"])
                               ELSE ws_queue
                /\ resp' = [resp EXCEPT ![d] = [ret |-> ret, reason |-> reason]]
                /\ active_trades' = Promoted(active_trades, row)
                /\ pc' = [pc EXCEPT ![d] = "await"]
                /\ UNCHANGED <<executed_trades, rows>>
           ELSE /\ Unpack(d, Promoted(active_trades, row), row, ret, reason)
                /\ UNCHANGED <<orders, ws_queue, resp>>
    /\ UNCHANGED <<spot, now_et>>

DispatchSubmit(d) ==
    \E net \in NetOutcomes(OrderIdOf(Len(orders) + 1), MarketPrice) : SubmitWith(d, net)

\* the call returns with the accepted order
DispatchFinish(d) ==
    /\ pc[d] = "await"
    /\ Unpack(d, active_trades, Head(rows[d]), resp[d].ret, resp[d].reason)
    /\ resp' = [resp EXCEPT ![d] = NoResp]
    /\ UNCHANGED <<spot, now_et, orders, ws_queue>>

\* the process is started again (python main.py): nothing is kept in memory
Restart(d) ==
    /\ pc[d] = "crashed"
    /\ pc' = [pc EXCEPT ![d] = "run"]
    /\ UNCHANGED <<active_trades, executed_trades, spot, now_et, orders, ws_queue, rows, resp>>


\* ------------------------------------------------ trade-event listener
\* the websocket thread lives in a dispatcher process (main.py, daemon thread)
ListenerUp == \E d \in Disp : pc[d] \in {"run", "await"}

\* an update without the order_id filter
Matching_all(table, order_id) == { i \in RowIds : table[i].exists }

\* rows that .eq("order_id", order_id) selects
Matching(table, order_id) == { i \in RowIds : table[i].exists /\ table[i].order_id = order_id }

\* an update that keeps the events' history in the comment
_update_order_status_in_db_append(table, order_id, status, comment) ==
    [i \in RowIds |->
        IF order_id # NULL /\ i \in Matching(table, order_id)
        THEN [table[i] EXCEPT
                !.order_status = IF status # NULL THEN status ELSE @,
                !.comment = IF comment # NULL THEN @ \o "," \o comment ELSE @]
        ELSE table[i]]

\* `if not order_id: return`; otherwise update = {order_status: status,
\* comment: ws_event}, each only when not None, on the matching rows
_update_order_status_in_db(table, order_id, status, comment) ==
    [i \in RowIds |->
        IF order_id # NULL /\ i \in Matching(table, order_id)
        THEN [table[i] EXCEPT
                !.order_status = IF status # NULL THEN status ELSE @,
                !.comment = IF comment # NULL THEN comment ELSE @]
        ELSE table[i]]

\* _handle_trade_update(payload): an event without order.id is logged and
\* dropped; otherwise the event name goes to comment, order.status to order_status
_handle_trade_update(table, payload) ==
    IF payload.id = NULL THEN table
    ELSE _update_order_status_in_db(table, payload.id, payload.status, payload.event)

\* _handle_trade_update on an event whose order_id some row carries
WsApply ==
    /\ ListenerUp
    /\ ws_queue # <<>>
    /\ Head(ws_queue).id # NULL
    /\ Matching(active_trades, Head(ws_queue).id) # {}
    /\ active_trades' = _update_order_status_in_db(active_trades, Head(ws_queue).id,
                                                   Head(ws_queue).status, Head(ws_queue).event)
    /\ ws_queue' = Tail(ws_queue)
    /\ UNCHANGED <<executed_trades, spot, now_et, orders, pc, rows, resp>>

\* no row carries the order_id, and none does within the five retries
WsNoMatch ==
    /\ ListenerUp
    /\ ws_queue # <<>>
    /\ Matching(active_trades, Head(ws_queue).id) = {}
    /\ ws_queue' = Tail(ws_queue)
    /\ UNCHANGED <<active_trades, executed_trades, spot, now_et, orders, pc, rows, resp>>

\* an event pushed while the socket is down or reconnecting is not replayed
WsMissed ==
    /\ ws_queue # <<>>
    /\ ws_queue' = Tail(ws_queue)
    /\ UNCHANGED <<active_trades, executed_trades, spot, now_et, orders, pc, rows, resp>>

\* ---------------------------------------------------------- environment
\* The broker also acknowledges an order with an event "new"; it would write a
\* non-terminal order_status, which the dispatcher reads as it reads
\* pending_new, and is left out.
\* the broker fills a working order at the market
BrokerFill(n) ==
    /\ orders[n].status = "new"
    /\ orders' = [orders EXCEPT ![n].status = "filled"]
    /\ ws_queue' = Append(ws_queue, [id |-> OrderIdOf(n), status |-> "filled", event |-> "fill"])
    /\ UNCHANGED <<active_trades, executed_trades, spot, now_et, pc, rows, resp>>

\* the broker ends a working order unfilled. No line of the code tells canceled,
\* rejected and expired apart (all three are in terminal_order_statuses and are
\* written through as they come), so the broker here reports one of them.
UnfilledStatuses == {"canceled"}

BrokerEnd(n, s) ==
    /\ orders[n].status = "new"
    /\ orders' = [orders EXCEPT ![n].status = s]
    /\ ws_queue' = Append(ws_queue, [id |-> OrderIdOf(n), status |-> s, event |-> s])
    /\ UNCHANGED <<active_trades, executed_trades, spot, now_et, pc, rows, resp>>

\* the market-data producer writes a new last price
SpotMove(p) ==
    /\ p # spot
    /\ spot' = p
    /\ UNCHANGED <<active_trades, executed_trades, now_et, orders, ws_queue, pc, rows, resp>>

ClockMove(t) ==
    /\ t # now_et
    /\ now_et' = t
    /\ UNCHANGED <<active_trades, executed_trades, spot, orders, ws_queue, pc, rows, resp>>

\* the user requests a force close (C) or freezes the row (N)
SetManage(i, m) ==
    /\ active_trades[i].exists
    /\ active_trades[i].manage = "Y"
    /\ active_trades' = [active_trades EXCEPT ![i].manage = m]
    /\ UNCHANGED <<executed_trades, spot, now_et, orders, ws_queue, pc, rows, resp>>

Next ==
    \/ \E d \in Disp : Fetch(d)
    \/ \E d \in Disp : DispatchSkip(d)
    \/ \E d \in Disp : DispatchDelete(d)
    \/ \E d \in Disp : DispatchSubmit(d)
    \/ \E d \in Disp : DispatchFinish(d)
    \/ \E d \in Disp : Restart(d)
    \/ WsApply
    \/ WsNoMatch
    \/ WsMissed
    \/ \E n \in 1..Len(orders) : BrokerFill(n)
    \/ \E n \in 1..Len(orders), s \in UnfilledStatuses : BrokerEnd(n, s)
    \/ \E p \in Prices : SpotMove(p)
    \/ \E i \in RowIds, m \in {"C", "N"} : SetManage(i, m)

\* with option rows in the store the wall clock matters
NextOpt == Next \/ \E t \in TimeSlots : ClockMove(t)

Spec == Init /\ [][Next]_vars

SpecOpt == InitOpt /\ [][NextOpt]_vars

SpecBoth == InitBoth /\ [][Next]_vars

SpecConc == InitConc /\ [][Next]_vars

\* ------------------------------------------------------------- claims
\* the broker's orders for row i
OrdersOf(i) == { n \in 1..Len(orders) : orders[n].row = i }

\* the broker's order that a row's order_id names is still working
StillWorking(order_id) ==
    \E n \in 1..Len(orders) : OrderIdOf(n) = order_id /\ orders[n].status = "new"

\* C1: two dispatcher passes running concurrently on one nt-waiting row leave
\* exactly one entry order at the broker: a row never has two entry orders that
\* are working or filled.
C1_SingleEntryOrder ==
    \A i \in RowIds :
        Cardinality({ n \in OrdersOf(i) : /\ orders[n].reason = "entry"
                                          /\ orders[n].status \in {"new", "filled"} }) <= 1

\* C2: at any time a row has at most one order submitted by the dispatcher that
\* has not reached a terminal status at the broker.
C2_OneInFlightOrder ==
    \A i \in RowIds :
        Cardinality({ n \in OrdersOf(i) : orders[n].status \notin terminal_order_statuses }) <= 1

\* C3: at most one closing order is ever sent for a managing row: a row never has
\* two sell orders that the broker took and did not end unfilled.
C3_OneClosingOrder ==
    \A i \in RowIds :
        Cardinality({ n \in OrdersOf(i) : /\ orders[n].side = "sell"
                                          /\ orders[n].status \in {"new", "filled"} }) <= 1

\* C4 as stated: once the store has manage = N for a row, no later step of the
\* dispatcher calls the broker for that row.
C4_NoCallOnceFrozen ==
    [][\A d \in Disp :
          DispatchSubmit(d) => active_trades[Head(rows[d]).id].manage # "N"]_vars

\* C4 amended: a fetch never returns a row whose manage is N at the time of the
\* fetch, and the dispatcher calls the broker only for a row of its last fetch
\* that it read with manage other than N.
C4_NoCallAfterFetch ==
    [][\A d \in Disp :
          /\ Fetch(d) => \A k \in 1..Len(rows'[d]) :
                             active_trades[rows'[d][k].id].manage # "N"
          /\ DispatchSubmit(d) => Head(rows[d]).manage # "N"]_vars

\* C4 witness: a row that would be submitted were it managed is frozen with
\* manage = N while the dispatcher is between two passes.
C4_FrozenRowLeftAlone ==
    \E i \in RowIds :
        /\ active_trades[i].exists
        /\ active_trades[i].manage = "N"
        /\ Plan([active_trades[i] EXCEPT !.manage = "Y"], now_et).act = "post"
        /\ \E d \in Disp : pc[d] = "run" /\ rows[d] = <<>>

\* the row is frozen as a fatal failure of a `reason` submission freezes it
Frozen(row, reason, code) ==
    /\ row.order_id = "Error"
    /\ row.order_status = "error"
    /\ row.manage = "N"
    /\ row.comment = ErrorComment(reason, code, "http_error")

\* C5: a submission that fails with HTTP 400, 401, 403 or 422, or with no HTTP
\* code, leaves the row with order_id "Error", order_status "error", manage N and
\* a comment that begins "{reason}_error_{code}:".
C5_FatalFreezes ==
    [][\A d \in Disp : \A net \in NetOutcomes(OrderIdOf(Len(orders) + 1), spot) :
          (SubmitWith(d, net) /\ net.kind = "http" /\ net.code \in fatal_codes)
          => Frozen(active_trades'[Head(rows[d]).id],
                    Plan(Head(rows[d]), now_et).reason, net.code)]_vars

\* C6: a failed submission never stops the dispatcher: after it the dispatcher
\* is still running its loop.
C6_FailureKeepsRunning ==
    [][\A d \in Disp : \A net \in NetOutcomes(OrderIdOf(Len(orders) + 1), spot) :
          (SubmitWith(d, net) /\ net.kind # "ok") => pc'[d] = "run"]_vars

\* C7: every row that the dispatcher moved to nt-managing has an open record in
\* the ledger, with an open price and open_cost_basis = price * qty * multiplier.
C7_ManagingHasOpenRecord ==
    \A i \in RowIds :
        (active_trades[i].exists /\ active_trades[i].status = "nt-managing")
        => /\ executed_trades[i].exists
           /\ executed_trades[i].open_price \in Prices
           /\ executed_trades[i].open_cost_basis =
                executed_trades[i].open_price * active_trades[i].qty
                    * Multiplier(active_trades[i].asset_type)

\* C8: a row deleted by a close (not by the deletion of a waiting intent) has a
\* close record in the ledger, with a close price and a close reason among sl,
\* tp, force, close.
C8_CloseHasRecord ==
    [][\A i \in RowIds :
          ( /\ active_trades[i].exists
            /\ ~active_trades'[i].exists
            /\ ~(\E d \in Disp : DispatchDelete(d)) )
          => /\ executed_trades'[i].exists
             /\ executed_trades'[i].close_price \in Prices
             /\ executed_trades'[i].close_reason \in {"sl", "tp", "force", "close"}]_vars

\* C9: while a row carries a real order id with order_status pending_new and
\* that order is not terminal at the broker, the dispatcher submits no order for
\* the row, under manage = Y and under manage = C alike.
C9_PendingBlocksSubmit ==
    [][\A d \in Disp :
          DispatchSubmit(d)
          => ~( /\ Head(rows[d]).order_id \notin {NULL, "Error"}
                /\ Head(rows[d]).order_status = "pending_new"
                /\ StillWorking(Head(rows[d]).order_id) )]_vars

\* C10: when the broker reports an order canceled, rejected or expired, the row
\* that carries it gets that order_status and manage = N.
C10_UnfilledFreezes ==
    [][(WsApply /\ Head(ws_queue).status \in terminal_order_statuses \ {"filled"})
          => \A i \in Matching(active_trades, Head(ws_queue).id) :
                /\ active_trades'[i].order_status = Head(ws_queue).status
                /\ active_trades'[i].manage = "N"]_vars

\* the dispatcher loop, the listener thread and the process supervisor get
\* their turns; the broker, the market and the user are under no obligation
SpecFair ==
    /\ Init
    /\ [][Next]_vars
    /\ \A d \in Disp :
          /\ WF_vars(Fetch(d))
          /\ WF_vars(DispatchSkip(d))
          /\ WF_vars(DispatchDelete(d))
          /\ WF_vars(DispatchSubmit(d))
          /\ WF_vars(DispatchFinish(d))
          /\ WF_vars(Restart(d))
    /\ WF_vars(WsApply)
    /\ WF_vars(WsNoMatch)

\* row i is an nt-waiting row under management whose entry order is filled at the broker
EntryFilled(i) ==
    /\ active_trades[i].exists
    /\ active_trades[i].status = "nt-waiting"
    /\ active_trades[i].manage = "Y"
    /\ \E n \in OrdersOf(i) : orders[n].reason = "entry" /\ orders[n].status = "filled"

\* C11: under fair scheduling, an nt-waiting row whose entry order is filled at
\* the broker eventually has order_status filled and status nt-managing (unless
\* the user takes it out of management or it is deleted first), also when the
\* fill event precedes the stored order id or is missed.
C11_FilledEntryPromoted ==
    \A i \in RowIds :
        EntryFilled(i) ~> \/ ~active_trades[i].exists
                          \/ active_trades[i].manage # "Y"
                          \/ /\ active_trades[i].order_status = "filled"
                             /\ active_trades[i].status = "nt-managing"

\* row i is a managing row under management with an SL or TP order filled at the broker
ClosingFilled(i) ==
    /\ active_trades[i].exists
    /\ active_trades[i].status \in {"nt-managing", "pos-managing"}
    /\ active_trades[i].manage = "Y"
    /\ \E n \in OrdersOf(i) : orders[n].reason \in {"sl", "tp"} /\ orders[n].status = "filled"

\* C12: under fair scheduling, a managing row whose closing order is filled at
\* the broker is eventually deleted from active_trades (unless the user changes
\* manage first), also when the submit response carried no fill price.
C12_FilledCloseDeleted ==
    \A i \in RowIds :
        ClosingFilled(i) ~> (~active_trades[i].exists \/ active_trades[i].manage # "Y")

\* C13: when the broker has taken the force-close order of a managing row with
\* manage = C, the dispatcher goes on running, and if the order is reported
\* filled the row is deleted and the ledger has a close with close_reason force.
C13_ForceCloseCompletes ==
    [][\A d \in Disp :
          (DispatchFinish(d) /\ resp[d].reason = "force")
          => /\ pc'[d] = "run"
             /\ resp[d].ret[1] # None
                => /\ ~active_trades'[Head(rows[d]).id].exists
                   /\ executed_trades[Head(rows[d]).id].exists
                      => executed_trades'[Head(rows[d]).id].close_reason = "force"]_vars

\* dispatcher d handles the first row of its fetch in this step
Handles(d) == DispatchSkip(d) \/ DispatchDelete(d) \/ DispatchSubmit(d)

\* the handled row is gone, no order was placed and the ledger is as it was
DeletedQuietly(d) ==
    /\ ~active_trades'[Head(rows[d]).id].exists
    /\ orders' = orders
    /\ executed_trades' = executed_trades

C15_DeletedWaitingHasNoPosition ==
    [][\A d \in Disp :
          DispatchDelete(d)
          => ~\E n \in OrdersOf(Head(rows[d]).id) :
                 /\ orders[n].reason = "entry"
                 /\ orders[n].status \in {"new", "filled"}]_vars

\* C16: no step changes or deletes a row whose manage is N (the user does not
\* touch such a row here either), whether it was switched to N after the
\* dispatcher read it or still carries a real order id.
C16_FrozenRowUntouched ==
    [][\A i \in RowIds :
          (active_trades[i].exists /\ active_trades[i].manage = "N")
          => active_trades'[i] = active_trades[i]]_vars

\* the trade events the broker can push for the orders of the model (event
\* names and order statuses of trade_updates; status may be missing)
WsEvents ==
    { [id |-> OrderIdOf(n), status |-> x[1], event |-> x[2]] :
        n \in 1..MaxOrders,
        x \in { <<"new", "new">>, <<"filled", "fill">>, <<"canceled", "canceled">>,
                <<"rejected", "rejected">>, <<"expired", "expired">>, <<NULL, "fill">> } }

\* C17: applying a trade event (order id, status, event) to the store a second
\* time changes no field of any row.
C17_EventIdempotent ==
    \A e \in WsEvents :
        LET once == _update_order_status_in_db(active_trades, e.id, e.status, e.event)
        IN  _update_order_status_in_db(once, e.id, e.status, e.event) = once

\* C17 witness: the listener has applied a fill event to a row
C17_EventApplied ==
    \E i \in RowIds :
        /\ active_trades[i].exists
        /\ active_trades[i].order_id \notin {NULL, "Error"}
        /\ active_trades[i].order_status = "filled"
        /\ active_trades[i].comment = "fill"

\* New-York time `now` is after `t`
Passed(t, now) ==
    now.weekday > t.weekday \/ (now.weekday = t.weekday /\ now.hm > t.hm)

\* C18: when the dispatcher handles a managing row read with manage = Y whose
\* end_time has passed, the row has manage = C and comment "time_exit" after
\* that step.
C18_TimeExitRequested ==
    [][\A d \in Disp :
          ( /\ Handles(d)
            /\ Head(rows[d]).status \in {"nt-managing", "pos-managing"}
            /\ Head(rows[d]).manage = "Y"
            /\ Passed(Head(rows[d]).end_time, now_et) )
          => /\ active_trades'[Head(rows[d]).id].manage = "C"
             /\ active_trades'[Head(rows[d]).id].comment = "time_exit"]_vars

\* an option order of dispatcher d reaches the broker in this step
OptionPost(d) ==
    /\ DispatchSubmit(d)
    /\ Head(rows[d]).asset_type = "option"
    /\ Len(orders') > Len(orders)

BothFire(row) ==
    /\ check_sl(row, fetch_spot(row.symbol), fetch_spot(row.occ))[1]
    /\ check_tp(row, fetch_spot(row.symbol), fetch_spot(row.occ))[1]

\* C20: when the dispatcher evaluates a managing row with manage = Y for which
\* the SL and the TP condition both hold and an order reaches the broker, it is
\* one order, with reason sl.
C20_StopLossFirst ==
    [][\A d \in Disp :
          ( /\ DispatchSubmit(d)
            /\ LocalStatus(Head(rows[d])) \in {"nt-managing", "pos-managing"}
            /\ Head(rows[d]).manage = "Y"
            /\ BothFire(Head(rows[d]))
            /\ orders' # orders )
          => /\ Len(orders') = Len(orders) + 1
             /\ orders'[Len(orders')].row = Head(rows[d]).id
             /\ orders'[Len(orders')].reason = "sl"]_vars

\* C20 witness: an SL order is at the broker for a row whose SL and TP
\* conditions both hold
C20_BothFiredStopSent ==
    \E n \in 1..Len(orders) :
        /\ orders[n].reason = "sl"
        /\ active_trades[orders[n].row].exists
        /\ BothFire(active_trades[orders[n].row])

\* C21: every step that changes the status of a row that stays in the store
\* moves it from nt-waiting to nt-managing; no step writes pos-managing, moves
\* a managing row back to nt-waiting, or changes the status of a pos-managing row.
C21_StatusOnlyPromoted ==
    [][\A i \in RowIds :
          ( /\ active_trades[i].exists
            /\ active_trades'[i].exists
            /\ active_trades'[i].status # active_trades[i].status )
          => /\ active_trades[i].status = "nt-waiting"
             /\ active_trades'[i].status = "nt-managing"]_vars

\* C21 witness: the dispatcher has promoted a row
C21_RowPromoted ==
    \E i \in RowIds : active_trades[i].exists /\ active_trades[i].status = "nt-managing"

\* ------------------------------------------- the evaluator on its own
\* levels and observed prices of the evaluator's inputs: absent, zero, positive
EvalLevels == {None} \cup (0 .. MaxPrice - 1)

EvalPrices == {None} \cup (0 .. MaxPrice)

\* the snapshot rows fetch_spot can return: none, or one with a last price and
\* a close of the 5m candle, either of which may be absent
SpotRows ==
    {NoSpot} \cup { SpotRowOf(last, close) : last \in EvalPrices, close \in EvalPrices }

\* the rows an author can write: any direction, condition, timeframe and level;
\* the timeframe 1h has no candle in the snapshot
EvalRows ==
    { [ AuthoredRow(1, at, IF at = "option" THEN "O:OCC" ELSE NULL, "nt-managing")
          EXCEPT !.cp = cp, !.side = side,
                 !.entry_cond = cond, !.sl_cond = cond,
                 !.entry_tf = tf, !.sl_tf = tf,
                 !.entry_level = level, !.sl_level = level, !.tp_level = level,
                 !.entry_type = ty, !.sl_type = ty, !.tp_type = ty ] :
        at \in {"equity", "option"}, cp \in {"c", "p", NULL}, side \in {"long", "short"},
        cond \in {"at", "ca", "cb"}, tf \in {NULL, "5m", "1h"},
        level \in EvalLevels, ty \in {"equity", "option"} }

\* one row and one snapshot of the two instruments, nothing evaluated yet;
\* here spot holds the two snapshot rows of lines 442-449
InitEval ==
    /\ \E r \in EvalRows : active_trades = [i \in RowIds |-> [r EXCEPT !.id = i]]
    /\ executed_trades = [i \in RowIds |-> NoExecuted]
    /\ spot \in [under : SpotRows, option : SpotRows]
    /\ now_et = [weekday |-> 0, hm |-> 1000]
    /\ orders = <<>>
    /\ ws_queue = <<>>
    /\ rows = [d \in Disp |-> <<>>]
    /\ resp = [d \in Disp |-> NoResp]
    /\ pc = [d \in Disp |-> IF d = 1 THEN "run" ELSE "off"]

\* one call of an evaluator function: rows[d] keeps the row it was given,
\* resp[d] the pair it returned
Evaluated(d, i, ret, reason) ==
    /\ pc[d] = "run"
    /\ rows' = [rows EXCEPT ![d] = <<active_trades[i]>>]
    /\ resp' = [resp EXCEPT ![d] = [ret |-> ret, reason |-> reason]]
    /\ UNCHANGED <<active_trades, executed_trades, spot, now_et, orders, ws_queue, pc>>

EvalEntry(d, i) ==
    Evaluated(d, i, check_entry(active_trades[i], spot.under, spot.option), "entry")

EvalSl(d, i) ==
    Evaluated(d, i, check_sl(active_trades[i], spot.under, spot.option), "sl")

EvalTp(d, i) ==
    Evaluated(d, i, check_tp(active_trades[i], spot.under, spot.option), "tp")

NextEval ==
    \/ \E d \in Disp, i \in RowIds : EvalEntry(d, i)
    \/ \E d \in Disp, i \in RowIds : EvalSl(d, i)
    \/ \E d \in Disp, i \in RowIds : EvalTp(d, i)

SpecEval == InitEval /\ [][NextEval]_vars

\* the instrument an evaluation reads: the one its *_type column selects
Selected(type_field) == _choose_spot_row(TypeOrEquity(type_field), spot.under, spot.option)

\* the evaluations dispatcher d has made of a long call with stop condition at,
\* a level that is a number and a last price of the selected instrument
LongCallEvaluated(d, reason) ==
    /\ Len(rows[d]) = 1
    /\ resp[d].reason = reason
    /\ rows[d][1].asset_type = "option"
    /\ rows[d][1].cp = "c"
    /\ rows[d][1].side = "long"
    /\ rows[d][1].sl_cond = "at"
    /\ rows[d][1].sl_level # None
    /\ Selected(rows[d][1].sl_type).exists
    /\ Selected(rows[d][1].sl_type).last_price # None

\* C22: for a long call, every level L (zero included) and every last price of
\* the selected instrument, check_sl with sl_cond = at triggers iff last <= L
\* and check_tp triggers iff last >= L.
C22_LongCallAt ==
    \A d \in Disp :
        /\ LongCallEvaluated(d, "sl") =>
              (resp[d].ret[1] <=> Selected(rows[d][1].sl_type).last_price <= rows[d][1].sl_level)
        /\ LongCallEvaluated(d, "tp") =>
              (resp[d].ret[1] <=> Selected(rows[d][1].tp_type).last_price >= rows[d][1].tp_level)

\* the evaluations dispatcher d has made of a put option row, of either side,
\* with stop condition at, a level that is a number and a last price of the
\* selected instrument
PutEvaluated(d, reason) ==
    /\ Len(rows[d]) = 1
    /\ resp[d].reason = reason
    /\ rows[d][1].asset_type = "option"
    /\ rows[d][1].cp = "p"
    /\ rows[d][1].sl_cond = "at"
    /\ rows[d][1].sl_level # None
    /\ Selected(rows[d][1].sl_type).exists
    /\ Selected(rows[d][1].sl_type).last_price # None

\* C23: for a put option row, whatever its side, check_tp triggers iff
\* last <= L and check_sl with sl_cond = at triggers iff last >= L.
C23_PutDirectionFromCp ==
    \A d \in Disp :
        /\ PutEvaluated(d, "tp") =>
              (resp[d].ret[1] <=> Selected(rows[d][1].tp_type).last_price <= rows[d][1].tp_level)
        /\ PutEvaluated(d, "sl") =>
              (resp[d].ret[1] <=> Selected(rows[d][1].sl_type).last_price >= rows[d][1].sl_level)

\* the close of timeframe tf in the selected snapshot row, None when the row,
\* the timeframe or the close is missing
CloseOf(spot_row, tf) ==
    IF spot_row.exists /\ tf \in DOMAIN spot_row.tf_closes
    THEN spot_row.tf_closes[tf].close ELSE None

\* what a candle-close condition asks of a close and a level
CandleFires(cond, close, level) ==
    /\ close # None
    /\ level # None
    /\ IF cond = "ca" THEN close > level ELSE close < level

\* C24: with condition ca, check_entry and check_sl trigger iff the close of the
\* configured timeframe is strictly above the level, with cb iff it is strictly
\* below, whatever side, cp and asset_type are; they do not trigger when the
\* timeframe or its close is missing.
C24_CandleClose ==
    \A d \in Disp :
        /\ ( /\ Len(rows[d]) = 1
             /\ resp[d].reason = "entry"
             /\ rows[d][1].entry_cond \in {"ca", "cb"} )
           => ( resp[d].ret[1] <=>
                  CandleFires(rows[d][1].entry_cond,
                              CloseOf(Selected(rows[d][1].entry_type), rows[d][1].entry_tf),
                              rows[d][1].entry_level) )
        /\ ( /\ Len(rows[d]) = 1
             /\ resp[d].reason = "sl"
             /\ rows[d][1].sl_cond \in {"ca", "cb"} )
           => ( resp[d].ret[1] <=>
                  CandleFires(rows[d][1].sl_cond,
                              CloseOf(Selected(rows[d][1].sl_type), rows[d][1].sl_tf),
                              rows[d][1].sl_level) )

\* a step in which an order of row i reaches the broker
Posted(i) ==
    /\ Len(orders') = Len(orders) + 1
    /\ orders'[Len(orders')].row = i

\* C25: every order submission for a row is preceded, in the same dispatch, by
\* a store update on that row that sets order_id = "sent", order_status =
\* "working" and comment = "{reason}_prelock": when the order is at the broker
\* and the call has not returned, the row carries the pre-lock.
C25_PrelockBeforePost ==
    [][\A i \in RowIds :
          Posted(i) =>
             /\ active_trades'[i].order_id = "sent"
             /\ active_trades'[i].order_status = "working"
             /\ active_trades'[i].comment = orders'[Len(orders')].reason \o "_prelock"]_vars

\* a step in which the submit call of dispatcher d returns an order id for an
\* entry, SL or TP order and the loop body runs to its end with the row kept
Returned(d) ==
    /\ DispatchFinish(d)
    /\ pc'[d] = "run"
    /\ resp[d].reason \in {"entry", "sl", "tp"}
    /\ resp[d].ret[2] # NULL
    /\ active_trades'[Head(rows[d]).id].exists

\* C26: after every order submission for which the broker returns an order id,
\* the row's stored order_id equals that id, with order_status = "pending_new"
\* and comment equal to the reason, also when the row carried the id of an
\* earlier order that is terminal.
C26_ReturnedIdStored ==
    [][\A d \in Disp :
          Returned(d) =>
             /\ active_trades'[Head(rows[d]).id].order_id = resp[d].ret[2]
             /\ active_trades'[Head(rows[d]).id].order_status = "pending_new"
             /\ active_trades'[Head(rows[d]).id].comment = resp[d].reason]_vars

\* an option row whose author left the OCC symbol out
NoOccRow(i, status) == AuthoredRow(i, "option", NULL, status)

\* the same store with a second dispatcher process started on it
InitErr_two_processes ==
    /\ \E st \in [RowIds -> AuthoredStatuses], has_occ \in [RowIds -> BOOLEAN] :
            active_trades = [i \in RowIds |->
                IF has_occ[i] THEN OptionRow(i, st[i]) ELSE NoOccRow(i, st[i])]
    /\ executed_trades = [i \in RowIds |->
            IF active_trades[i].status = "pos-managing"
            THEN ExternalOpen(active_trades[i], 1) ELSE NoExecuted]
    /\ spot \in Prices
    /\ now_et = [weekday |-> 0, hm |-> 1000]
    /\ orders = <<>>
    /\ ws_queue = <<>>
    /\ rows = [d \in Disp |-> <<>>]
    /\ resp = [d \in Disp |-> NoResp]
    /\ pc = [d \in Disp |-> "run"]

\* one process during market hours, a store of option rows with or without OCC
InitErr ==
    /\ \E st \in [RowIds -> AuthoredStatuses], has_occ \in [RowIds -> BOOLEAN] :
            active_trades = [i \in RowIds |->
                IF has_occ[i] THEN OptionRow(i, st[i]) ELSE NoOccRow(i, st[i])]
    /\ executed_trades = [i \in RowIds |->
            IF active_trades[i].status = "pos-managing"
            THEN ExternalOpen(active_trades[i], 1) ELSE NoExecuted]
    /\ spot \in Prices
    /\ now_et = [weekday |-> 0, hm |-> 1000]
    /\ orders = <<>>
    /\ ws_queue = <<>>
    /\ rows = [d \in Disp |-> <<>>]
    /\ resp = [d \in Disp |-> NoResp]
    /\ pc = [d \in Disp |-> IF d = 1 THEN "run" ELSE "off"]

SpecErr == InitErr /\ [][Next]_vars

\* the row's order_id names an order of the broker
RealId(order_id) == \E n \in 1..Len(orders) : OrderIdOf(n) = order_id

C27_WorkingIdStored ==
    \E i \in RowIds :
        /\ active_trades[i].exists
        /\ RealId(active_trades[i].order_id)
        /\ StillWorking(active_trades[i].order_id)

\* C28: the dispatcher writes nothing to executed_trades, deletes no row and
\* promotes no row as a direct result of the submit response: the step in which
\* a submit call returns leaves the ledger, the set of rows and their status
\* as they were.
C28_ResponseWritesNoFill ==
    [][\A d \in Disp :
          DispatchFinish(d) =>
             /\ executed_trades' = executed_trades
             /\ \A i \in RowIds :
                   active_trades[i].exists =>
                      /\ active_trades'[i].exists
                      /\ active_trades'[i].status = active_trades[i].status]_vars

\* a step in which dispatcher d submits an order and the broker answers with
\* HTTP 429 or a code of 500 and above
SoftFailure(d, net) ==
    /\ SubmitWith(d, net)
    /\ net.kind = "http"
    /\ (net.code = 429 \/ net.code >= 500)

\* C29: when an order submission fails with HTTP 429 or a code >= 500, the row
\* is not frozen, its manage, status and order_id are left as the send found
\* them, and the dispatcher goes on to its next tick, which retries. (The value
\* "sent" the row should carry through the failure is the pre-lock of C25.)
C29_SoftFailureRetried ==
    [][\A d \in Disp, net \in NetOutcomes(OrderIdOf(Len(orders) + 1), spot) :
          SoftFailure(d, net) =>
             /\ active_trades'[Head(rows[d]).id].manage = active_trades[Head(rows[d]).id].manage
             /\ active_trades'[Head(rows[d]).id].status = LocalStatus(Head(rows[d]))
             /\ active_trades'[Head(rows[d]).id].order_id = active_trades[Head(rows[d]).id].order_id
             /\ pc'[d] = "run"]_vars

\* the send of an entry, SL or TP order is due for a row as fetched: its
\* condition has fired and no order of the row is pending
Due(row) ==
    /\ row.manage = "Y"
    /\ ~OrderPending(row)
    /\ LET spot_under == fetch_spot(row.symbol)
           spot_opt   == fetch_spot(row.occ)
           en == check_entry(row, spot_under, spot_opt)
           sl == check_sl(row, spot_under, spot_opt)
           tp == check_tp(row, spot_under, spot_opt)
       IN  \/ LocalStatus(row) = "nt-waiting" /\ en[1] /\ en[2] # None
           \/ /\ LocalStatus(row) \in {"nt-managing", "pos-managing"}
              /\ (sl[1] /\ sl[2] # None) \/ (tp[1] /\ tp[2] # None)

\* dispatcher d has fetched an option row whose send is due
OptionDue(d) ==
    /\ pc[d] = "run"
    /\ rows[d] # <<>>
    /\ Head(rows[d]).asset_type = "option"
    /\ Due(Head(rows[d]))

\* the hours in which the dispatcher's options gate lets a send through
InGateHours(t) == t.weekday < 5 /\ 931 <= t.hm /\ t.hm <= 1600

C30_SubmittedInHours ==
    \E d \in Disp :
        /\ pc[d] = "await"
        /\ InGateHours(now_et)
        /\ Head(rows[d]).asset_type = "option"

\* ------------------------------------------- a spot table with gaps
\* an equity row that enters now, at a touch of 1, or on a 5m close above 0
EntryRow(i, status, cond) ==
    [EquityRow(i, status) EXCEPT !.entry_cond = cond,
                                 !.entry_tf = IF cond = "ca" THEN "5m" ELSE NULL,
                                 !.entry_level = IF cond = "ca" THEN 0 ELSE 1]

EntryConds == {"now", "at", "ca"}

\* one process; the spot table may lack the row, its last price, or fail to answer
InitSpot ==
    /\ \E st \in [RowIds -> AuthoredStatuses], cond \in [RowIds -> EntryConds] :
            active_trades = [i \in RowIds |-> EntryRow(i, st[i], cond[i])]
    /\ executed_trades = [i \in RowIds |->
            IF active_trades[i].status = "pos-managing"
            THEN ExternalOpen(active_trades[i], 1) ELSE NoExecuted]
    /\ spot \in SpotCases
    /\ now_et = [weekday |-> 0, hm |-> 1000]
    /\ orders = <<>>
    /\ ws_queue = <<>>
    /\ rows = [d \in Disp |-> <<>>]
    /\ resp = [d \in Disp |-> NoResp]
    /\ pc = [d \in Disp |-> IF d = 1 THEN "run" ELSE "off"]

NextSpot == Next \/ \E p \in SpotCases : SpotMove(p)

SpecSpot == InitSpot /\ [][NextSpot]_vars

\* dispatcher d has fetched a row it reads as nt-waiting, manage Y, no order
\* pending, entry_cond now, and the spot table answers without a last price
NowWithoutPrice(d) ==
    /\ pc[d] = "run"
    /\ rows[d] # <<>>
    /\ Head(rows[d]).manage = "Y"
    /\ LocalStatus(Head(rows[d])) = "nt-waiting"
    /\ ~OrderPending(Head(rows[d]))
    /\ Head(rows[d]).entry_cond = "now"
    /\ spot \in {None, NoSpotRow, CloseOnly}

\* C31: check_entry with entry_cond = now returns trigger = true also when the
\* selected spot row or its last price is absent, and the dispatcher then
\* submits the entry order.
C31_NowEntersWithoutPrice ==
    [][\A d \in Disp :
          (NowWithoutPrice(d) /\ Handles(d)) =>
             /\ check_entry(Head(rows[d]), fetch_spot(Head(rows[d]).symbol),
                            fetch_spot(Head(rows[d]).occ))[1]
             /\ DispatchSubmit(d)]_vars

\* dispatcher d has fetched a row with manage Y
HoldsManaged(d) ==
    /\ pc[d] = "run"
    /\ rows[d] # <<>>
    /\ Head(rows[d]).manage = "Y"

\* the handled row is left as the pass found it: nothing reaches the broker or
\* the ledger, and no field of a row changes but the status that the same pass
\* has auto-promoted
SkippedUntouched(d) ==
    /\ DispatchSkip(d)
    /\ orders' = orders
    /\ executed_trades' = executed_trades
    /\ \A i \in RowIds :
          active_trades'[i] =
             IF i = Head(rows[d]).id /\ AutoPromote(Head(rows[d])) /\ active_trades[i].exists
             THEN [active_trades[i] EXCEPT !.status = "nt-managing"]
             ELSE active_trades[i]

\* the close of timeframe tf in a snapshot row, None when there is none
SnapshotClose(spot_row, tf) ==
    IF spot_row.exists /\ tf \in DOMAIN spot_row.tf_closes
    THEN spot_row.tf_closes[tf].close ELSE None

\* the price a condition reads from the snapshot row of the symbol: the last
\* price for at and now, the close of the timeframe for ca and cb
PriceRead(row, cond, tf) ==
    IF cond \in {"ca", "cb"} THEN SnapshotClose(fetch_spot(row.symbol), tf)
    ELSE IF fetch_spot(row.symbol).exists THEN fetch_spot(row.symbol).last_price ELSE None

\* the check that applies to the row has no price to read
NotEvaluable(row) ==
    \/ fetch_spot_raises(row)
    \/ /\ LocalStatus(row) = "nt-waiting"
       /\ PriceRead(row, row.entry_cond, row.entry_tf) = None
    \/ /\ LocalStatus(row) \in {"nt-managing", "pos-managing"}
       /\ PriceRead(row, row.sl_cond, row.sl_tf) = None
       /\ PriceRead(row, "at", NULL) = None

PlaceReturn(row, reason, net) ==
    IF row.asset_type = "equity"
    THEN place_equity_market(row.symbol, row.qty, EquitySide(reason), net)
    ELSE place_option_market(row.occ, row.qty, OptionSide(reason), net, now_et)

\* C33: every return of place_equity_market and place_option_market is a
\* 4-tuple (fill_price, order_id, error_code, error_message), the shape the
\* caller in the dispatcher unpacks; on an HTTP error its third element is the
\* HTTP status code, on a network error it is None.
C33_PlaceReturnsFour ==
    [][\A d \in Disp, net \in NetOutcomes(OrderIdOf(Len(orders) + 1), MarketPrice) :
          SubmitWith(d, net) =>
             LET reason == Plan(Head(rows[d]), now_et).reason
                 ret    == PlaceReturn(Head(rows[d]), reason, net)
             IN  /\ Len(ret) = 4
                 /\ Unpacks(ret, UnpackTargets(reason))
                 /\ net.kind = "http" => ret[3] = net.code
                 /\ net.kind = "network" => ret[3] = None]_vars

\* trade events that lack order.id or order.status
PartialEvents ==
    { [id |-> id, status |-> st, event |-> "fill"] :
        id \in {NULL} \cup { OrderIdOf(n) : n \in 1..MaxOrders }, st \in {NULL, "filled"} }
    \ { [id |-> OrderIdOf(n), status |-> "filled", event |-> "fill"] : n \in 1..MaxOrders }

\* C34: the listener applies an update only for events that carry both
\* order.id and order.status: an event lacking either one leaves every row
\* unchanged.
C34_PartialEventIgnored ==
    \A e \in PartialEvents : _handle_trade_update(active_trades, e) = active_trades

ReasonTags == {"entry", "sl", "tp", "force"}

\* C35: while a row has a submitted order its comment holds the reason tag of
\* that order: applying a broker trade event never replaces the reason tag.
C35_EventKeepsReasonTag ==
    [][WsApply =>
          \A i \in RowIds :
             ( /\ active_trades[i].exists
               /\ active_trades[i].order_id = Head(ws_queue).id
               /\ active_trades[i].comment \in ReasonTags )
             => active_trades'[i].comment = active_trades[i].comment]_vars

AllEvents == WsEvents \cup PartialEvents

\* row `after` differs from row `before` in order_status and comment at most
OnlyOrderStatusAndComment(before, after) ==
    after = [before EXCEPT !.order_status = after.order_status, !.comment = after.comment]

\* C37: the listener changes only order_status and comment, and only of rows
\* whose order_id equals the event's order id: status, manage, order_id, qty and
\* every other column stay, no row is deleted or inserted, and rows with a
\* different order_id are untouched.
C37_ListenerWritesTwoColumns ==
    \A e \in AllEvents :
        LET after == _handle_trade_update(active_trades, e)
        IN  \A i \in RowIds :
               /\ OnlyOrderStatusAndComment(active_trades[i], after[i])
               /\ (~active_trades[i].exists \/ active_trades[i].order_id # e.id)
                     => after[i] = active_trades[i]

\* C37 witness: the listener has applied the fill event of a row's entry order;
\* the row is still nt-waiting with manage Y
C37_FillAppliedRowKept ==
    \E i \in RowIds :
        /\ active_trades[i].exists
        /\ active_trades[i].order_id = "o1"
        /\ active_trades[i].order_status = "filled"
        /\ active_trades[i].comment = "fill"
        /\ active_trades[i].status = "nt-waiting"
        /\ active_trades[i].manage = "Y"
        /\ ws_queue = <<>>

\* C38: in every reachable state a row with order_id = "Error" also has
\* manage = "N" and order_status = "error": the freeze writes the three in one
\* update and no later step of the dispatcher or the listener changes them.
C38_ErrorRowFrozen ==
    \A i \in RowIds :
        (active_trades[i].exists /\ active_trades[i].order_id = "Error")
        => /\ active_trades[i].manage = "N"
           /\ active_trades[i].order_status = "error"

\* C38 witness: an entry that the adapter refused for its missing OCC symbol
\* has frozen the row
C38_FrozenByFatalEntry ==
    \E i \in RowIds :
        /\ active_trades[i].exists
        /\ active_trades[i].order_id = "Error"
        /\ active_trades[i].comment = "entry_error_400: missing OCC symbol"

\* a step of the dispatcher or of the listener
CoreStep ==
    \/ \E d \in Disp : Fetch(d) \/ Handles(d) \/ DispatchFinish(d) \/ Restart(d)
    \/ WsApply
    \/ WsNoMatch
    \/ WsMissed

\* C39: the core never writes manage = Y, and a manage of N or C set from
\* outside stays as it is until the row is deleted or changed from outside.
C39_ManageStaysSet ==
    [][CoreStep =>
          \A i \in RowIds :
             (active_trades[i].exists /\ active_trades'[i].exists)
             => /\ active_trades'[i].manage = "Y" => active_trades[i].manage = "Y"
                /\ active_trades[i].manage \in {"N", "C"}
                      => active_trades'[i].manage = active_trades[i].manage]_vars

====
